---- MODULE Spec2Model ----
(***************************************************************************)
(* A model of the belief engine of flexmeasures:                           *)
(*   - the write path: drop_unchanged_beliefs and save_to_database,        *)
(*   - the read path: query_time_series_data,                              *)
(*   - the cross-sensor aggregation: aggregate_values,                     *)
(*   - the data sources, UDI events and their scheduling jobs,             *)
(*   - the dashboard utilities: get_assets, set_time_range_for_session.    *)
(* Time is counted in whole units; the sensor of the write path has an     *)
(* event resolution of one unit, so that                                   *)
(*   belief_horizon = event_start + event_resolution - belief_time.        *)
(***************************************************************************)
EXTENDS Integers, Sequences, FiniteSets, TLC

VARIABLES
    store,      \* the belief table of one sensor: a set of belief rows
    seen,       \* the table as drop_unchanged_beliefs read it
    batch,      \* the candidate BeliefsDataFrame handed to the write path
    idx,        \* its index: "belief_time" or "belief_horizon"
    result,     \* what drop_unchanged_beliefs returned
    status,     \* outcome of the save: "none", "ok" or "IntegrityError"
    wpc,        \* position of the write path: "start" or "done"
    wr,         \* the concurrent writers: position and what each decided to write
    raw,        \* the rows query.all() returned, for all sensors
    names,      \* old_sensor_names: the tuple of requested sensor names
    window,     \* the query window as the caller gave it
    res_arg,    \* the resolution as the caller gave it
    config,     \* FLEXMEASURES_MODE and FLEXMEASURES_DEMO_YEAR
    query_window,   \* the local query_window
    resolution, \* the local resolution, carried from one sensor to the next
    i,          \* the position of the loop over old_sensor_names
    bdf_dict,   \* the result under construction
    selected,   \* per sensor, the frame after "Keep the most recent observation"
    resampled,  \* per sensor, the frame as resampled, before it is sliced
    rpc,        \* "call", "loop", "returned" or "raised"
    error,      \* the exception that ended the call, or "none"
    run,        \* 1 in the first run of a query, 2 when it is run again
    first,      \* what the first run returned
    series,     \* the bdf_dict handed to aggregate_values: a tuple of frames
    agg,        \* what aggregate_values returned
    warnings,   \* the warnings it logged
    apc,        \* position of the aggregation: "start" or "done"
    data_sources,   \* the data_sources table, as the session sees it
    ds_log,     \* the calls of get_data_source so far and what they returned
    asset,      \* per asset: soc_datetime, soc_in_mwh and soc_udi_event_id
    queue,      \* the scheduling queue: the ids of the jobs that wait
    jobs,       \* the scheduling jobs made so far, by id
    post,       \* the last post_udi_event request, with its response
    worked,     \* the last scheduling job the worker ran, with its outcome
    ASSETS,     \* the global, lazily loaded asset description
    disk,       \* data/assets.json and the assets that have all their pickles
    reads,      \* how often data/assets.json was read
    assets_got, \* what the calls of get_assets returned, in their order
    session,    \* the session: start_time, end_time, resolution, forecast_horizon
    request,    \* the forecast_horizon of request.values in the last call of
                \* set_time_range_for_session
    now,        \* the most recent quarter of the clock
    outcome     \* how that call ended: "none", "returned" or the exception

writeVars == <<seen, batch, idx, result, status, wpc>>

readInputs == <<raw, names, window, res_arg, config>>

readVars == <<readInputs, query_window, resolution, i, bdf_dict, selected, resampled, rpc, error, run, first>>

aggVars == <<series, agg, warnings, apc>>

dsVars == <<data_sources, ds_log>>

udiVars == <<asset, queue, jobs, post, worked>>

cacheVars == <<ASSETS, disk, reads, assets_got>>

sessionVars == <<session, request, now, outcome>>

appVars == <<udiVars, cacheVars, sessionVars>>

vars == <<store, writeVars, wr, readVars, aggVars, dsVars, appVars>>

(***************************************************************************)
(* Bounds of the model.                                                    *)
(***************************************************************************)
MaxBatch == 2
MaxStore == 1
MaxConcBatch == 1
MaxRaw == 2

\* <<event_start, belief_time>> of the beliefs of the write path: three ex-post
\* belief times for event 0, an ex-ante and an ex-post one for event 1
Timings == {<<0, 1>>, <<0, 2>>, <<0, 3>>, <<1, 1>>, <<1, 2>>}
Sources == {1}
Writers == {"w1", "w2"}
Probabilities == {1, 2}
Values == {10, 20}
IndexKinds == {"belief_time", "belief_horizon"}

\* the event resolution of the sensor of the write path
EventResolution == 1

Beliefs ==
    {[event_start |-> t[1], belief_time |-> t[2], source |-> s,
      cumulative_probability |-> p, event_value |-> v] :
        t \in Timings, s \in Sources, p \in Probabilities, v \in Values}

(***************************************************************************)
(* The Belief table.                                                       *)
(***************************************************************************)
belief_horizon(r) == r.event_start + EventResolution - r.belief_time

\* the primary key of a belief (the sensor is fixed)
BeliefKey(r) ==
    <<r.source, r.event_start, belief_horizon(r), r.cumulative_probability>>

KeyUnique(S) == \A r, q \in S : BeliefKey(r) = BeliefKey(q) => r = q

RECURSIVE SubsetsUpTo(_, _)
SubsetsUpTo(S, n) ==
    IF n = 0
        THEN {{}}
        ELSE LET P == SubsetsUpTo(S, n - 1)
             IN  P \cup {T \cup {x} : T \in P, x \in S}

Frames(n) == {T \in SubsetsUpTo(Beliefs, n) : KeyUnique(T)}

(***************************************************************************)
(* save_to_database                                                        *)
(***************************************************************************)
HasCollision(objects, table) ==
    \E o \in objects : \E s \in table : BeliefKey(o) = BeliefKey(s)

\* bulk_save_objects: one INSERT per object, rejected as a whole on a
\* primary key that is already in the table
bulk_save_objects(objects, table) ==
    IF HasCollision(objects, table)
        THEN [status |-> "IntegrityError", table |-> table]
        ELSE [status |-> "ok", table |-> table \cup objects]

\* session.merge: the row with the object's primary key is replaced
merge(objects, table) ==
    [status |-> "ok",
     table |-> {s \in table : \A o \in objects : BeliefKey(o) # BeliefKey(s)}
                   \cup objects]

save_to_database(objects, overwrite, table) ==
    IF ~overwrite
        THEN bulk_save_objects(objects, table)
        ELSE merge(objects, table)

(***************************************************************************)
(* drop_unchanged_beliefs                                                  *)
(***************************************************************************)
ex_ante(bdf) == {r \in bdf : belief_horizon(r) > 0}

ex_post(bdf) == {r \in bdf : belief_horizon(r) <= 0}

SameCompareFields(r, q) ==
    /\ r.event_start = q.event_start
    /\ r.source = q.source
    /\ r.cumulative_probability = q.cumulative_probability
    /\ r.event_value = q.event_value

\* the position of two rows with equal event_start, source and probability
\* after sort_index: by belief_time, or by belief_horizon
SortsBefore(q, r, kind) ==
    IF kind = "belief_time"
        THEN q.belief_time < r.belief_time
        ELSE belief_horizon(q) < belief_horizon(r)

\* sort_index().drop_duplicates(compare fields, keep="first")
drop_duplicates(bdf, kind) ==
    {r \in bdf : ~\E q \in bdf : SameCompareFields(q, r) /\ SortsBefore(q, r, kind)}

\* the first event start and the last event start of a sorted frame
FirstEventStart(bdf) ==
    CHOOSE e \in {r.event_start : r \in bdf} :
        \A r \in bdf : e <= r.event_start

LastEventStart(bdf) ==
    CHOOSE e \in {r.event_start : r \in bdf} :
        \A r \in bdf : e >= r.event_start

\* bdf.belief_horizons[0]: the horizon of the first row of the sorted group,
\* whose rows share one belief time
FirstHorizon(bdf) ==
    FirstEventStart(bdf) + EventResolution - (CHOOSE r \in bdf : TRUE).belief_time

\* Sensor.search_beliefs, as called by the write path; a bound that is not
\* given (None) is the empty set, a given one the set holding it
search_beliefs(table, starts_after, ends_before, beliefs_before, source, at_least, at_most) ==
    {s \in table :
        /\ s.event_start >= starts_after
        /\ s.event_start + EventResolution <= ends_before
        /\ s.belief_time <= beliefs_before
        /\ s.source = source
        /\ \A h \in at_least : belief_horizon(s) >= h
        /\ \A h \in at_most : belief_horizon(s) <= h}

\* belief_utils.select_most_recent_belief: per event and source the rows of
\* the latest belief time
select_most_recent_belief(bdf) ==
    {r \in bdf : \A q \in bdf :
        (q.event_start = r.event_start /\ q.source = r.source)
            => q.belief_time <= r.belief_time}

\* a variant that looks up the beliefs of any horizon
previous_most_recent_beliefs_in_db_any_horizon(bdf, table) ==
    LET g == CHOOSE r \in bdf : TRUE
    IN  select_most_recent_belief(
            search_beliefs(table,
                           FirstEventStart(bdf),
                           LastEventStart(bdf) + EventResolution,
                           g.belief_time,
                           g.source,
                           {},
                           {}))

previous_most_recent_beliefs_in_db(bdf, table) ==
    LET g == CHOOSE r \in bdf : TRUE
        ante == FirstHorizon(bdf) > 0
    IN  select_most_recent_belief(
            search_beliefs(table,
                           FirstEventStart(bdf),
                           LastEventStart(bdf) + EventResolution,
                           g.belief_time,
                           g.source,
                           IF ante THEN {0} ELSE {},
                           IF ante THEN {} ELSE {0}))

\* a.drop(b.index, errors="ignore"): the rows of a that are not in b on the
\* compare fields
ChangedRows(a, b) == {r \in a : ~\E s \in b : SameCompareFields(r, s)}

\* a variant that returns only the rows that changed
WholeBeliefs_ChangedRowsOnly(a, c) == c

\* d[d.index.isin(c.index)]: whole probabilistic beliefs, per event and source
WholeBeliefs(a, c) ==
    {r \in a : \E q \in c : q.event_start = r.event_start /\ q.source = r.source}

\* bdf: one belief time, one source
drop_unchanged_beliefs_compared_to_db(bdf, table) ==
    WholeBeliefs(bdf, ChangedRows(bdf, previous_most_recent_beliefs_in_db(bdf, table)))

\* groupby(level=["belief_time", "source"])
GroupKeys(bdf) == {<<r.belief_time, r.source>> : r \in bdf}

Group(bdf, k) == {r \in bdf : r.belief_time = k[1] /\ r.source = k[2]}

\* the part of drop_unchanged_beliefs after the split
DropUnchangedOfOneKind(bdf, kind, table) ==
    LET deduped == drop_duplicates(bdf, kind)
    IN  UNION {drop_unchanged_beliefs_compared_to_db(Group(deduped, k), table) :
                   k \in GroupKeys(deduped)}

\* a variant that does not treat the ex-ante and the ex-post part separately
drop_unchanged_beliefs_unsplit(bdf, kind, table) ==
    IF bdf = {}
        THEN bdf
        ELSE DropUnchangedOfOneKind(bdf, kind, table)

drop_unchanged_beliefs(bdf, kind, table) ==
    IF bdf = {}
        THEN bdf
        ELSE IF ex_ante(bdf) # {} /\ ex_post(bdf) # {}
            THEN DropUnchangedOfOneKind(ex_ante(bdf), kind, table)
                     \cup DropUnchangedOfOneKind(ex_post(bdf), kind, table)
            ELSE DropUnchangedOfOneKind(bdf, kind, table)

(***************************************************************************)
(* The write path as a state machine: a batch arrives, the unchanged       *)
(* beliefs are dropped and the rest is saved.                              *)
(***************************************************************************)
WritersIdle == [w \in Writers |-> [pc |-> "idle", kept |-> {}]]

\* the read path at rest
ReadIdle ==
    /\ raw = {}
    /\ names = <<>>
    /\ window = <<{}, {}>>
    /\ res_arg = {}
    /\ config = [mode |-> "", demo_year |-> {}]
    /\ query_window = <<{}, {}>>
    /\ resolution = {}
    /\ i = 1
    /\ bdf_dict = <<>>
    /\ selected = <<>>
    /\ resampled = <<>>
    /\ rpc = "idle"
    /\ error = "none"
    /\ run = 1
    /\ first = <<>>

AggIdle ==
    /\ series = <<>>
    /\ agg = {}
    /\ warnings = {}
    /\ apc = "idle"

DsIdle ==
    /\ data_sources = {}
    /\ ds_log = <<>>

\* no UDI event was posted and no scheduling job made
UdiIdle ==
    /\ asset = <<>>
    /\ queue = <<>>
    /\ jobs = <<>>
    /\ post = {}
    /\ worked = {}

\* get_assets was not called
CacheIdle ==
    /\ ASSETS = <<>>
    /\ disk = [assets_json |-> <<>>, pickles |-> {}]
    /\ reads = 0
    /\ assets_got = <<>>

\* no session
SessionIdle ==
    /\ session = <<>>
    /\ request = <<>>
    /\ now = {}
    /\ outcome = "none"

AppIdle ==
    /\ UdiIdle
    /\ CacheIdle
    /\ SessionIdle

InitWrite ==
    /\ store \in Frames(MaxStore)
    /\ wr = WritersIdle
    /\ ReadIdle
    /\ AggIdle
    /\ DsIdle
    /\ AppIdle
    /\ seen = {}
    /\ batch \in Frames(MaxBatch)
    /\ idx \in IndexKinds
    /\ result = {}
    /\ status = "none"
    /\ wpc = "start"

\* reconcile: the write path followed by the insert of what it kept
\* (save_to_database with its default, overwrite=False)
Reconcile ==
    /\ wpc = "start"
    /\ LET kept == drop_unchanged_beliefs(batch, idx, store)
           saved == save_to_database(kept, FALSE, store)
       IN  /\ result' = kept
           /\ status' = saved.status
           /\ store' = saved.table
    /\ seen' = store
    /\ wpc' = "done"
    /\ UNCHANGED <<batch, idx, wr, readVars, aggVars, dsVars, appVars>>

NextWrite == Reconcile

SpecWrite == InitWrite /\ [][NextWrite]_vars

(***************************************************************************)
(* Concurrent writers: each reads the table and decides what to write      *)
(* (drop_unchanged_beliefs), and saves it in a later step; the two steps   *)
(* of one writer are not atomic.                                           *)
(***************************************************************************)
InitConc ==
    /\ store = {}
    /\ wr = WritersIdle
    /\ ReadIdle
    /\ AggIdle
    /\ DsIdle
    /\ AppIdle
    /\ seen = {}
    /\ batch = {}
    /\ idx = "belief_time"
    /\ result = {}
    /\ status = "none"
    /\ wpc = "start"

Decide(w, bdf, kind) ==
    /\ wr[w].pc = "idle"
    /\ wr' = [wr EXCEPT ![w] = [pc |-> "decided",
                                kept |-> drop_unchanged_beliefs(bdf, kind, store)]]
    /\ UNCHANGED <<store, writeVars, readVars, aggVars, dsVars, appVars>>

Save(w) ==
    /\ wr[w].pc = "decided"
    /\ LET saved == save_to_database(wr[w].kept, FALSE, store)
       IN  /\ store' = saved.table
           /\ wr' = [wr EXCEPT ![w].pc =
                         IF saved.status = "ok" THEN "saved" ELSE saved.status]
    /\ UNCHANGED <<writeVars, readVars, aggVars, dsVars, appVars>>

NextConc ==
    \E w \in Writers :
        \/ \E bdf \in Frames(MaxConcBatch), kind \in IndexKinds : Decide(w, bdf, kind)
        \/ Save(w)

SpecConc == InitConc /\ [][NextConc]_vars

(***************************************************************************)
(* A sequence of saves: callers hand objects to save_to_database, with or  *)
(* without overwrite.                                                      *)
(***************************************************************************)
MaxSaved == 2

InitSave ==
    /\ store = {}
    /\ wr = WritersIdle
    /\ ReadIdle
    /\ AggIdle
    /\ DsIdle
    /\ AppIdle
    /\ seen = {}
    /\ batch = {}
    /\ idx = "belief_time"
    /\ result = {}
    /\ status = "none"
    /\ wpc = "idle"

SaveObjects(objects, overwrite) ==
    LET saved == save_to_database(objects, overwrite, store)
    IN  /\ Cardinality(saved.table) <= MaxSaved
        /\ store' = saved.table
        /\ status' = saved.status
        /\ batch' = objects
        /\ UNCHANGED <<seen, idx, result, wpc, wr, readVars, aggVars, dsVars, appVars>>

NextSave ==
    \E objects \in Frames(MaxConcBatch), overwrite \in BOOLEAN : SaveObjects(objects, overwrite)

SpecSave == InitSave /\ [][NextSave]_vars

(***************************************************************************)
(* The read path: query_time_series_data.                                  *)
(* A datetime is a whole number of time units: year * YearLen + slot. The  *)
(* slot LeapSlot exists only in leap years; it lies inside the year, with  *)
(* days of the same year before it and after it.                           *)
(***************************************************************************)
YearLen == 6
LeapSlot == 3
DemoYear == 1
NowYear == 2

IsLeap(y) == y % 4 = 0

Year(t) == t \div YearLen

Slot(t) == t % YearLen

At(y, slot) == y * YearLen + slot

ValidTime(t) == Slot(t) # LeapSlot \/ IsLeap(Year(t))

\* None is the empty set, a value x the set {x}
None == {}

Some(x) == {x}

The(opt) == CHOOSE x \in opt : TRUE

\* datetime.replace(year=y): None stands for the ValueError
\* "day is out of range for month"
replace_year(t, y) ==
    IF Slot(t) = LeapSlot /\ ~IsLeap(y)
        THEN None
        ELSE Some(At(y, Slot(t)))

\* t - timedelta(days=1) and t + timedelta(days=1), a day being one unit
MinusOneDay(t) == IF ValidTime(t - 1) THEN t - 1 ELSE t - 2

PlusOneDay(t) == IF ValidTime(t + 1) THEN t + 1 ELSE t + 2

\* the start and the end of the window in the demo year, expanded by a day
\* when the bound is a leap day that the demo year does not have
DemoStart(t, demo_year) ==
    IF replace_year(t, demo_year) # None
        THEN The(replace_year(t, demo_year))
        ELSE At(demo_year, Slot(MinusOneDay(t)))

\* a variant that moves a leap-day end a day back, as for the start
DemoEnd_DayBefore(t, demo_year) ==
    IF replace_year(t, demo_year) # None
        THEN The(replace_year(t, demo_year))
        ELSE At(demo_year, Slot(MinusOneDay(t)))

DemoEnd(t, demo_year) ==
    IF replace_year(t, demo_year) # None
        THEN The(replace_year(t, demo_year))
        ELSE At(demo_year, Slot(PlusOneDay(t)))

\* a variant without the try/except around replace
convert_query_window_for_demo_unguarded(qw, demo_year) ==
    IF demo_year = None
        THEN [raised |-> "none", window |-> qw]
        ELSE IF qw[1] = None \/ qw[2] = None
            THEN [raised |-> "AttributeError", window |-> qw]
            ELSE IF \E t \in qw[1] \cup qw[2] : replace_year(t, The(demo_year)) = None
                THEN [raised |-> "ValueError", window |-> qw]
                ELSE LET start == DemoStart(The(qw[1]), The(demo_year))
                         end == DemoEnd(The(qw[2]), The(demo_year))
                     IN  [raised |-> "none",
                          window |-> IF start > end
                                         THEN <<Some(end), Some(start)>>
                                         ELSE <<Some(start), Some(end)>>]

\* a variant without the swap of lines 258-259
convert_query_window_for_demo_unswapped(qw, demo_year) ==
    IF demo_year = None
        THEN [raised |-> "none", window |-> qw]
        ELSE IF qw[1] = None \/ qw[2] = None
            THEN [raised |-> "AttributeError", window |-> qw]
            ELSE [raised |-> "none",
                  window |-> <<Some(DemoStart(The(qw[1]), The(demo_year))),
                               Some(DemoEnd(The(qw[2]), The(demo_year)))>>]

\* convert_query_window_for_demo; None.replace raises an AttributeError
convert_query_window_for_demo(qw, demo_year) ==
    IF demo_year = None
        THEN [raised |-> "none", window |-> qw]
        ELSE IF qw[1] = None \/ qw[2] = None
            THEN [raised |-> "AttributeError", window |-> qw]
            ELSE LET start == DemoStart(The(qw[1]), The(demo_year))
                     end == DemoEnd(The(qw[2]), The(demo_year))
                 IN  [raised |-> "none",
                      window |-> IF start > end
                                     THEN <<Some(end), Some(start)>>
                                     ELSE <<Some(start), Some(end)>>]

\* the sensors that find_sensor_by_name knows, with their event resolution
Sensors == [A |-> 1, B |-> 2, C |-> 3]

find_sensor_by_name(name) ==
    IF name \in DOMAIN Sensors
        THEN [raised |-> "none", event_resolution |-> Sensors[name]]
        ELSE [raised |-> "Exception", event_resolution |-> 0]

Range(f) == {f[k] : k \in DOMAIN f}

\* the orders in which the rows of a set can be presented
Perms(S) ==
    {f \in [1..Cardinality(S) -> S] :
        \A a, b \in 1..Cardinality(S) : a # b => f[a] # f[b]}

\* the k-th smallest number of a set of numbers
Nth(I, k) == CHOOSE a \in I : Cardinality({b \in I : b < a}) = k - 1

\* df[df["name"] == name]
RowsOfSensor(df, name) == {r \in df : r.name = name}

\* sort_values(by=["horizon"]): rows with equal horizons end up in an order
\* that depends on the order of the query's rows and on the sort
SortByHorizon(df) ==
    {f \in Perms(df) : \A a, b \in DOMAIN f : a < b => f[a].horizon <= f[b].horizon}

\* drop_duplicates(subset=["datetime"], keep="first")
DropDuplicateDatetimes(f) ==
    LET kept == {a \in DOMAIN f : \A b \in 1..(a - 1) : f[b].datetime # f[a].datetime}
    IN  [k \in 1..Cardinality(kept) |-> f[Nth(kept, k)]]

\* sort_values(by=["datetime"]) of rows with distinct datetimes
SortByDatetime(f) ==
    CHOOSE g \in Perms(Range(f)) :
        \A a, b \in DOMAIN g : a < b => g[a].datetime <= g[b].datetime

\* a variant that leaves the rows in the order of their horizons
KeepMostRecent_Unsorted(df) ==
    {DropDuplicateDatetimes(f) : f \in SortByHorizon(df)}

\* "Keep the most recent observation": what the three steps can yield
KeepMostRecent(df) ==
    {SortByDatetime(DropDuplicateDatetimes(f)) : f \in SortByHorizon(df)}

\* df.rename and set_index("event_start")
Rename(f) ==
    [k \in DOMAIN f |-> [event_start |-> f[k].datetime,
                         belief_horizon |-> f[k].horizon,
                         source |-> f[k].source,
                         event_value |-> f[k].value]]

\* tz_convert raises on the index of a frame without rows, which holds no
\* datetimes
tz_convert_raises(f) == Len(f) = 0

\* a variant without the guard of line 179
ConvertTimezoneRaises_Unguarded(f) == tz_convert_raises(f)

\* lines 178-180: the index is converted to the FLEXMEASURES timezone, which
\* leaves the instants as they are, unless the frame is empty
ConvertTimezoneRaises(f) == Len(f) # 0 /\ tz_convert_raises(f)

\* df.index.map(lambda t: t.replace(year=datetime.now().year))
RelabelRaises(f) == \E k \in DOMAIN f : replace_year(f[k].event_start, NowYear) = None

Relabel(f) ==
    [k \in DOMAIN f |->
        [f[k] EXCEPT !.event_start = The(replace_year(f[k].event_start, NowYear))]]

RECURSIVE SumValues(_)
SumValues(S) ==
    IF S = {}
        THEN 0
        ELSE LET r == CHOOSE x \in S : TRUE
             IN  r.event_value + SumValues(S \ {r})

\* the rows of a set with distinct event starts, in the order of event_start
SeqByEventStart(S) ==
    LET starts == {r.event_start : r \in S}
    IN  [k \in 1..Cardinality(starts) |->
            CHOOSE r \in S : r.event_start = Nth(starts, k)]

Bucket(t, res) == t - (t % res)

\* a variant that adds the values of a bucket up
Downsample_Sum(f, res) ==
    LET buckets == {Bucket(f[k].event_start, res) : k \in DOMAIN f}
        In(b) == {k \in DOMAIN f : Bucket(f[k].event_start, res) = b}
        Row(b) ==
            [event_start |-> b,
             belief_horizon |->
                 CHOOSE h \in {f[k].belief_horizon : k \in In(b)} :
                     \A k \in In(b) : h <= f[k].belief_horizon,
             source |-> f[Nth(In(b), 1)].source,
             event_value |-> SumValues({f[k] : k \in In(b)})]
    IN  SeqByEventStart({Row(b) : b \in buckets})

\* downsampling: per bucket of the coarser resolution the mean of the values,
\* the most recent horizon and the source of the first row
Downsample(f, res) ==
    LET buckets == {Bucket(f[k].event_start, res) : k \in DOMAIN f}
        In(b) == {k \in DOMAIN f : Bucket(f[k].event_start, res) = b}
        Row(b) ==
            [event_start |-> b,
             belief_horizon |->
                 CHOOSE h \in {f[k].belief_horizon : k \in In(b)} :
                     \A k \in In(b) : h <= f[k].belief_horizon,
             source |-> f[Nth(In(b), 1)].source,
             event_value |-> SumValues({f[k] : k \in In(b)}) \div Cardinality(In(b))]
    IN  SeqByEventStart({Row(b) : b \in buckets})

\* upsampling: each event is repeated over the finer events it spans
Upsample(f, native, res) ==
    SeqByEventStart({[f[k] EXCEPT !.event_start = f[k].event_start + n * res] :
                        k \in DOMAIN f, n \in 0..((native \div res) - 1)})

\* bdf.resample_events(event_resolution=res, keep_only_most_recent_belief=True)
resample_events(f, native, res) ==
    IF Len(f) = 0 \/ res = native
        THEN f
        ELSE IF res > native
            THEN Downsample(f, res)
            ELSE Upsample(f, native, res)

InWindow(t, qw) ==
    /\ \A start \in qw[1] : t >= start
    /\ \A end \in qw[2] : t < end

\* a variant that keeps the events that start at the end of the window
Slice_EndIncluded(f, qw) ==
    LET kept == {k \in DOMAIN f :
                    /\ \A start \in qw[1] : f[k].event_start >= start
                    /\ \A end \in qw[2] : f[k].event_start <= end}
    IN  [k \in 1..Cardinality(kept) |-> f[Nth(kept, k)]]

\* "Slice query window after resampling"
Slice(f, qw) ==
    LET kept == {k \in DOMAIN f : InWindow(f[k].event_start, qw)}
    IN  [k \in 1..Cardinality(kept) |-> f[Nth(kept, k)]]

(***************************************************************************)
(* The inputs of the read path.                                            *)
(***************************************************************************)
RawSlots == {0, 1, 2}
Horizons == {1, 2}
RawSources == {1, 2}

\* the rows that the table holds for a year: sensor A has a row per slot,
\* horizon and source, sensor B (of resolution 2) a row per event
RawUniverse(y) ==
    {[name |-> "A", datetime |-> At(y, sl), horizon |-> h, source |-> src,
      value |-> 100 + 10 * (2 - h) + 20 * sl + 1000 * (src - 1)] :
         sl \in RawSlots, h \in Horizons, src \in RawSources}
    \cup {[name |-> "B", datetime |-> At(y, sl), horizon |-> 1, source |-> 1,
           value |-> 10 * (sl + 6)] : sl \in {0, 2}}

NameTuples == {<<"A">>, <<"A", "B">>, <<"B", "A">>, <<"A", "X">>, <<"X", "A">>}

Windows ==
    {<<start, end>> :
        start \in {None} \cup {Some(At(NowYear, sl)) : sl \in {0, 1}},
        end \in {None} \cup {Some(At(NowYear, sl)) : sl \in {1, 2}}}

Resolutions == {None, Some(1), Some(2)}

Configs ==
    {[mode |-> "", demo_year |-> Some(DemoYear)],
     [mode |-> "demo", demo_year |-> None],
     [mode |-> "demo", demo_year |-> Some(DemoYear)]}

\* the year whose data the query returns
QueryYear(cfg) ==
    IF cfg.mode = "demo" /\ cfg.demo_year # None
        THEN The(cfg.demo_year)
        ELSE NowYear

WriteIdle ==
    /\ store = {}
    /\ wr = WritersIdle
    /\ seen = {}
    /\ batch = {}
    /\ idx = "belief_time"
    /\ result = {}
    /\ status = "none"
    /\ wpc = "idle"

InitRead ==
    /\ WriteIdle
    /\ AggIdle
    /\ DsIdle
    /\ AppIdle
    /\ config \in Configs
    /\ raw \in SubsetsUpTo(RawUniverse(QueryYear(config)), MaxRaw)
    /\ names \in NameTuples
    /\ window \in Windows
    /\ res_arg \in Resolutions
    /\ query_window = window
    /\ resolution = res_arg
    /\ i = 1
    /\ bdf_dict = <<>>
    /\ selected = <<>>
    /\ resampled = <<>>
    /\ rpc = "call"
    /\ error = "none"
    /\ run = 1
    /\ first = <<>>

Raise(exception) ==
    /\ rpc' = "raised"
    /\ error' = exception
    /\ bdf_dict' = <<>>
    /\ selected' = <<>>
    /\ resampled' = <<>>
    /\ UNCHANGED <<readInputs, query_window, resolution, i, run, first>>

\* lines 120-137: the window is converted on demo, the query is run
Begin ==
    /\ rpc = "call"
    /\ LET conv == IF config.mode = "demo"
                       THEN convert_query_window_for_demo(window, config.demo_year)
                       ELSE [raised |-> "none", window |-> window]
       IN  IF conv.raised # "none"
               THEN Raise(conv.raised)
               ELSE /\ query_window' = conv.window
                    /\ resolution' = res_arg
                    /\ i' = 1
                    /\ bdf_dict' = <<>>
                    /\ selected' = <<>>
                    /\ resampled' = <<>>
                    /\ rpc' = "loop"
                    /\ UNCHANGED <<readInputs, error, run, first>>
    /\ UNCHANGED <<store, writeVars, wr, aggVars, dsVars, appVars>>

\* lines 139-209: one pass of the loop over old_sensor_names
ProcessSensor ==
    /\ rpc = "loop"
    /\ i <= Len(names)
    /\ \E recent \in KeepMostRecent(RowsOfSensor(raw, names[i])) :
          LET df == Rename(recent)
              sensor == find_sensor_by_name(names[i])
              res == IF resolution = None THEN Some(sensor.event_resolution) ELSE resolution
              bdf == resample_events(IF config.mode = "demo" THEN Relabel(df) ELSE df,
                                     sensor.event_resolution, The(res))
          IN  IF ConvertTimezoneRaises(df)
                  THEN Raise("AttributeError")
              ELSE IF config.mode = "demo" /\ RelabelRaises(df)
                  THEN Raise("ValueError")
                  ELSE IF sensor.raised # "none"
                      THEN Raise(sensor.raised)
                      ELSE /\ resolution' = res
                           /\ selected' = (names[i] :> df) @@ selected
                           /\ resampled' = (names[i] :> bdf) @@ resampled
                           /\ bdf_dict' = (names[i] :> Slice(bdf, query_window)) @@ bdf_dict
                           /\ i' = i + 1
                           /\ UNCHANGED <<readInputs, query_window, rpc, error, run, first>>
    /\ UNCHANGED <<store, writeVars, wr, aggVars, dsVars, appVars>>

\* line 211
Return ==
    /\ rpc = "loop"
    /\ i > Len(names)
    /\ rpc' = "returned"
    /\ UNCHANGED <<readInputs, query_window, resolution, i, bdf_dict, selected, resampled, error, run, first>>
    /\ UNCHANGED <<store, writeVars, wr, aggVars, dsVars, appVars>>

\* the same query is run once more on the same rows
Again ==
    /\ rpc = "returned"
    /\ run = 1
    /\ run' = 2
    /\ first' = bdf_dict
    /\ rpc' = "call"
    /\ UNCHANGED <<readInputs, query_window, resolution, i, bdf_dict, selected, resampled, error>>
    /\ UNCHANGED <<store, writeVars, wr, aggVars, dsVars, appVars>>

NextRead == Begin \/ ProcessSensor \/ Return \/ Again

SpecRead == InitRead /\ [][NextRead]_vars

(***************************************************************************)
(* convert_query_window_for_demo on its own, for windows of two years, one *)
(* of them a leap year, and demo years with and without a leap day.        *)
(***************************************************************************)
LeapYear == 4

CallerYears == {LeapYear, LeapYear + 1}

DemoYears == {DemoYear, 2 * LeapYear}

CallerTimes == {t \in {At(y, sl) : y \in CallerYears, sl \in 0..(YearLen - 1)} : ValidTime(t)}

DemoWindows ==
    {<<start, end>> : start \in {None} \cup {Some(t) : t \in CallerTimes},
                      end \in {None} \cup {Some(t) : t \in CallerTimes}}

InitDemo ==
    /\ WriteIdle
    /\ AggIdle
    /\ DsIdle
    /\ AppIdle
    /\ raw = {}
    /\ names = <<>>
    /\ window \in DemoWindows
    /\ res_arg = None
    /\ config \in {[mode |-> "demo", demo_year |-> y] : y \in {None} \cup {Some(y) : y \in DemoYears}}
    /\ query_window = <<None, None>>
    /\ resolution = None
    /\ i = 1
    /\ bdf_dict = <<>>
    /\ selected = <<>>
    /\ resampled = <<>>
    /\ rpc = "call"
    /\ error = "none"
    /\ run = 1
    /\ first = <<>>

\* line 122: query_window = convert_query_window_for_demo(query_window)
Convert ==
    /\ rpc = "call"
    /\ LET conv == convert_query_window_for_demo(window, config.demo_year)
       IN  /\ query_window' = conv.window
           /\ error' = conv.raised
           /\ rpc' = IF conv.raised = "none" THEN "converted" ELSE "raised"
    /\ UNCHANGED <<readInputs, resolution, i, bdf_dict, selected, resampled, run, first>>
    /\ UNCHANGED <<store, writeVars, wr, aggVars, dsVars, appVars>>

NextDemo == Convert

SpecDemo == InitDemo /\ [][NextDemo]_vars

(***************************************************************************)
(* Resampling on its own: the frame of one sensor, of one source and with  *)
(* one row per event, is resampled to a target resolution (lines 189-201). *)
(* Values are held in twelfths, so that the mean of up to four of them is  *)
(* a whole number.                                                         *)
(***************************************************************************)
MaxSpan == 4

ValueUnit == 12

ResampleValues == {10 * ValueUnit, 20 * ValueUnit, 30 * ValueUnit, 40 * ValueUnit}

TargetResolutions == {1, 2, 3, 4}

\* the event starts of a sensor of a resolution, before MaxSpan
NativeStarts(native) == {t \in 0..(MaxSpan - 1) : t % native = 0}

NativeFrames(native) ==
    UNION {{SeqByEventStart({[event_start |-> t, belief_horizon |-> 1,
                              source |-> 1, event_value |-> v[t]] : t \in T}) :
               v \in [T -> ResampleValues]} : T \in SUBSET NativeStarts(native)}

InitResample ==
    /\ WriteIdle
    /\ AggIdle
    /\ DsIdle
    /\ AppIdle
    /\ raw = {}
    /\ names \in {<<name>> : name \in DOMAIN Sensors}
    /\ window = <<None, None>>
    /\ res_arg \in {Some(res) : res \in TargetResolutions}
    /\ config = [mode |-> "", demo_year |-> None]
    /\ query_window = <<None, None>>
    /\ resolution = res_arg
    /\ i = 1
    /\ bdf_dict = <<>>
    /\ selected \in {names[1] :> f : f \in NativeFrames(Sensors[names[1]])}
    /\ resampled = <<>>
    /\ rpc = "selected"
    /\ error = "none"
    /\ run = 1
    /\ first = <<>>

\* lines 186-201: the frame gets the sensor's resolution and is resampled
Resample ==
    /\ rpc = "selected"
    /\ LET sensor == find_sensor_by_name(names[1])
       IN  resampled' = (names[1] :> resample_events(selected[names[1]],
                                                     sensor.event_resolution,
                                                     The(resolution)))
    /\ rpc' = "resampled"
    /\ UNCHANGED <<readInputs, query_window, resolution, i, bdf_dict, selected, error, run, first>>
    /\ UNCHANGED <<store, writeVars, wr, aggVars, dsVars, appVars>>

NextResample == Resample

SpecResample == InitResample /\ [][NextResample]_vars

(***************************************************************************)
(* Aggregation: aggregate_values, which collect_time_series_data applies   *)
(* to what query_time_series_data returned. The mapping is a tuple of      *)
(* frames in the order of the dict; a frame is a set of rows, with one row *)
(* per event_start as the read path yields them.                           *)
(***************************************************************************)
MaxSeries == 2

AggEventStarts == {0, 1}

AggSources == {1, 2}

AggValues == {5, 10}

AggRows ==
    {[event_start |-> t, source |-> src, event_value |-> v] :
        t \in AggEventStarts, src \in AggSources, v \in AggValues}

AggFrames ==
    {f \in SubsetsUpTo(AggRows, Cardinality(AggEventStarts)) :
        \A r, q \in f : r.event_start = q.event_start => r = q}

Mappings == UNION {[1..n -> AggFrames] : n \in 1..MaxSeries}

\* bdf.lineage.sources and bdf.lineage.number_of_sources
LineageSources(bdf) == {r.source : r \in bdf}

\* bdf.lineage.unique_beliefs_per_event_per_source
unique_beliefs_per_event_per_source(bdf) ==
    \A r, q \in bdf : (r.event_start = q.event_start /\ r.source = q.source) => r = q

\* a variant without the check on the sources of the whole input
Warnings_PerSeriesOnly(d) ==
    {"multi-source beliefs about the same sensor" :
        k \in {k \in DOMAIN d : Cardinality(LineageSources(d[k])) > 1}}

\* lines 275-289: the warnings that are logged
Warnings(d) ==
    {"only deterministic uni-source beliefs" :
        k \in {k \in DOMAIN d : ~unique_beliefs_per_event_per_source(d[k])}}
    \cup {"multi-source beliefs about the same sensor" :
        k \in {k \in DOMAIN d : Cardinality(LineageSources(d[k])) > 1}}
    \cup (IF Cardinality(UNION {LineageSources(d[k]) : k \in DOMAIN d}) > 1
              THEN {"multi-source beliefs"}
              ELSE {})

\* simplify_index(v)["event_value"] at an event start; 0 is the fill_value
ValueAt(v, t) == SumValues({r \in v : r.event_start = t})

\* line 296: the values of v are added to the rows that data_as_bdf has; the
\* assignment to the column keeps the index of data_as_bdf
AddEventValues(data_as_bdf, v) ==
    {[r EXCEPT !.event_value = r.event_value + ValueAt(v, r.event_start)] : r \in data_as_bdf}

\* lines 291-301: the loop over the items of bdf_dict, from position k
RECURSIVE SumFrames(_, _, _)
SumFrames(d, k, data_as_bdf) ==
    IF k > Len(d)
        THEN data_as_bdf
        ELSE SumFrames(d, k + 1,
                       IF data_as_bdf = {}
                           THEN d[k]
                           ELSE IF d[k] # {}
                               THEN AddEventValues(data_as_bdf, d[k])
                               ELSE data_as_bdf)

\* a variant without the shortcut of lines 271-273
aggregate_values_no_shortcut(d) ==
    [warnings |-> Warnings(d), value |-> SumFrames(d, 1, {})]

aggregate_values(d) ==
    IF Len(d) = 1
        THEN [warnings |-> {}, value |-> d[1]]
        ELSE [warnings |-> Warnings(d), value |-> SumFrames(d, 1, {})]

InitAgg ==
    /\ WriteIdle
    /\ ReadIdle
    /\ DsIdle
    /\ AppIdle
    /\ series \in Mappings
    /\ agg = {}
    /\ warnings = {}
    /\ apc = "start"

\* line 89: return aggregate_values(bdf_dict)
Aggregate ==
    /\ apc = "start"
    /\ agg' = aggregate_values(series).value
    /\ warnings' = aggregate_values(series).warnings
    /\ apc' = "done"
    /\ UNCHANGED <<series, store, writeVars, wr, readVars, dsVars, appVars>>

NextAgg == Aggregate

SpecAgg == InitAgg /\ [][NextAgg]_vars

(***************************************************************************)
(* collect_time_series_data: the query, followed by the aggregation when   *)
(* sum_multiple is set; next to it a batch goes through the write path.    *)
(***************************************************************************)
FetchNames == {<<"A">>, <<"A", "B">>, <<"B", "A">>}

FetchWindows == {<<None, None>>, <<Some(At(NowYear, 0)), Some(At(NowYear, 2))>>}

FetchBatches ==
    {{}} \cup {{b} : b \in {r \in Beliefs : r.event_start = 0 /\ r.belief_time = 1
                                            /\ r.cumulative_probability = 1}}

InitFetch ==
    /\ DsIdle
    /\ AppIdle
    /\ store = {}
    /\ wr = WritersIdle
    /\ seen = {}
    /\ batch \in FetchBatches
    /\ idx \in IndexKinds
    /\ result = {}
    /\ status = "none"
    /\ wpc = "start"
    /\ config = [mode |-> "", demo_year |-> None]
    /\ raw \in SubsetsUpTo(RawUniverse(QueryYear(config)), MaxRaw)
    /\ names \in FetchNames
    /\ window \in FetchWindows
    /\ res_arg \in {None, Some(2)}
    /\ query_window = window
    /\ resolution = res_arg
    /\ i = 1
    /\ bdf_dict = <<>>
    /\ selected = <<>>
    /\ resampled = <<>>
    /\ rpc = "call"
    /\ error = "none"
    /\ run = 1
    /\ first = <<>>
    /\ series = <<>>
    /\ agg = {}
    /\ warnings = {}
    /\ apc = "start"

\* lines 88-91 on what query_time_series_data returned; the frames are handed
\* to aggregate_values in the order of the dict, which is that of the names
Collect(sum_multiple) ==
    /\ rpc = "returned"
    /\ apc = "start"
    /\ LET frames == [k \in DOMAIN names |-> Range(bdf_dict[names[k]])]
       IN  /\ series' = frames
           /\ IF sum_multiple
                  THEN /\ agg' = aggregate_values(frames).value
                       /\ warnings' = aggregate_values(frames).warnings
                       /\ apc' = "summed"
                  ELSE /\ agg' = bdf_dict
                       /\ warnings' = {}
                       /\ apc' = "mapped"
    /\ UNCHANGED <<store, writeVars, wr, readVars, dsVars, appVars>>

NextFetch ==
    \/ Begin
    \/ ProcessSensor
    \/ Return
    \/ \E sum_multiple \in BOOLEAN : Collect(sum_multiple)
    \/ Reconcile

SpecFetch == InitFetch /\ [][NextFetch]_vars

(***************************************************************************)
(* get_data_source: a data source is looked up by its label and created    *)
(* when there is none. The calls share one session.                        *)
(***************************************************************************)
MaxCalls == 3

LabelRank == [forecasts |-> 1, schedules |-> 2, prices |-> 3]

Labels == DOMAIN LabelRank

\* the sources of a set of labels, as earlier runs of a script left them
SourcesOf(labels) ==
    {[id |-> Cardinality({m \in labels : LabelRank[m] < LabelRank[l]}) + 1,
      label |-> l, type |-> "script"] : l \in labels}

\* DataSource.query.filter(DataSource.label == data_source_label)
WithLabel(table, label) == {s \in table : s.label = label}

\* a variant that creates a data source whether or not there is one
get_data_source_create(label, table) ==
    LET created == [id |-> Cardinality(table) + 1, label |-> label, type |-> "script"]
    IN  [raised |-> "none", source |-> Some(created), table |-> table \cup {created}, created |-> TRUE]

\* one_or_none() raises when several rows match; a new source gets its id
\* when the session is flushed
get_data_source(label, table) ==
    LET found == WithLabel(table, label)
        created == [id |-> Cardinality(table) + 1, label |-> label, type |-> "script"]
    IN  IF Cardinality(found) > 1
            THEN [raised |-> "MultipleResultsFound", source |-> None, table |-> table, created |-> FALSE]
            ELSE IF found = {}
                THEN [raised |-> "none", source |-> Some(created), table |-> table \cup {created}, created |-> TRUE]
                ELSE [raised |-> "none", source |-> found, table |-> table, created |-> FALSE]

InitSources ==
    /\ WriteIdle
    /\ AppIdle
    /\ ReadIdle
    /\ AggIdle
    /\ data_sources \in {SourcesOf(labels) : labels \in SUBSET Labels}
    /\ ds_log = <<>>

GetDataSource(label) ==
    /\ Len(ds_log) < MaxCalls
    /\ LET got == get_data_source(label, data_sources)
       IN  /\ data_sources' = got.table
           /\ ds_log' = Append(ds_log, [label |-> label,
                                        raised |-> got.raised,
                                        source |-> got.source,
                                        created |-> got.created,
                                        existed |-> WithLabel(data_sources, label) # {}])
    /\ UNCHANGED <<store, writeVars, wr, readVars, aggVars, appVars>>

NextSources == \E label \in Labels : GetDataSource(label)

SpecSources == InitSources /\ [][NextSources]_vars

(***************************************************************************)
(* UDI events (API v1.3): a posted state of charge is stored on the asset  *)
(* and starts a scheduling job, which a worker runs later. The job looks   *)
(* up its data source with get_data_source.                                *)
(***************************************************************************)
\* the scheduling jobs made in one run of the model
MaxJobs == 2

\* "Test battery" and "Test charging station"
Assets == {"battery", "station"}

EventIds == {1, 2, 3}

Datetimes == {1, 2}

\* the value of a message, in kWh
SocValues == {1000, 2000}

SchedulerLabel == "schedule by Seita"

NoSoc == [soc_datetime |-> None, soc_in_mwh |-> None, soc_udi_event_id |-> None]

\* the event of a message, "<owner>:<asset>:<event id>:soc", is the job's id
JobId(a, id) == <<a, id>>

\* a variant that accepts every UDI event
post_udi_event_unchecked(a, id, dt, v, assets, q, js) ==
    [status_code |-> 200, status |-> "PROCESSED",
     asset |-> [assets EXCEPT
                   ![a] = [soc_datetime |-> Some(dt), soc_in_mwh |-> Some(v \div 1000), soc_udi_event_id |-> Some(id)]],
     queue |-> Append(q, JobId(a, id)),
     jobs |-> (JobId(a, id) :> [asset_id |-> a, start |-> dt, status |-> "queued"]) @@ js]

\* the state of charge is stored and a job queued, unless the asset has seen
\* this event id or a later one
post_udi_event(a, id, dt, v, assets, q, js) ==
    IF \E n \in assets[a].soc_udi_event_id : id <= n
        THEN [status_code |-> 400, status |-> "OUTDATED_UDI_EVENT",
              asset |-> assets, queue |-> q, jobs |-> js]
        ELSE [status_code |-> 200, status |-> "PROCESSED",
              asset |-> [assets EXCEPT
                            ![a] = [soc_datetime |-> Some(dt), soc_in_mwh |-> Some(v \div 1000), soc_udi_event_id |-> Some(id)]],
              queue |-> Append(q, JobId(a, id)),
              jobs |-> (JobId(a, id) :> [asset_id |-> a, start |-> dt, status |-> "queued"]) @@ js]

\* a scheduling job: the data source of the scheduler is looked up (and
\* added to the session when there is none), then the schedule is made; the
\* session is committed when the job finishes and rolled back when it fails
make_schedule(prices_known, table) ==
    LET got == get_data_source(SchedulerLabel, table)
    IN  IF got.raised = "none" /\ prices_known
            THEN [status |-> "finished", table |-> got.table, session |-> got.table, created |-> got.created]
            ELSE [status |-> "failed", table |-> table, session |-> got.table, created |-> got.created]

InitUdi ==
    /\ WriteIdle
    /\ ReadIdle
    /\ AggIdle
    /\ data_sources \in {{}, SourcesOf({"forecasts"})}
    /\ ds_log = <<>>
    /\ CacheIdle
    /\ SessionIdle
    /\ asset = [a \in Assets |-> NoSoc]
    /\ queue = <<>>
    /\ jobs = <<>>
    /\ post = {}
    /\ worked = {}

PostUdiEvent(a, id, dt, v) ==
    /\ Cardinality(DOMAIN jobs) < MaxJobs
    /\ LET r == post_udi_event(a, id, dt, v, asset, queue, jobs)
       IN  /\ asset' = r.asset
           /\ queue' = r.queue
           /\ jobs' = r.jobs
           /\ post' = {[asset_id |-> a, event_id |-> id, datetime |-> dt, value |-> v,
                        status_code |-> r.status_code, status |-> r.status,
                        asset_before |-> asset[a]]}
    /\ UNCHANGED <<worked, store, writeVars, wr, readVars, aggVars, dsVars, cacheVars, sessionVars>>

\* work_on_rq: the worker takes the first job of the queue and runs it
WorkOnRq(prices_known) ==
    /\ queue # <<>>
    /\ LET j == Head(queue)
           r == make_schedule(prices_known, data_sources)
       IN  /\ data_sources' = r.table
           /\ jobs' = [jobs EXCEPT ![j].status = r.status]
           /\ worked' = {[id |-> j, status |-> r.status, created |-> r.created,
                          existed |-> WithLabel(data_sources, SchedulerLabel) # {},
                          session |-> r.session]}
    /\ queue' = Tail(queue)
    /\ UNCHANGED <<asset, post, ds_log, store, writeVars, wr, readVars, aggVars, cacheVars, sessionVars>>

NextUdi ==
    \/ \E a \in Assets, id \in EventIds, dt \in Datetimes, v \in SocValues : PostUdiEvent(a, id, dt, v)
    \/ \E prices_known \in BOOLEAN : WorkOnRq(prices_known)

SpecUdi == InitUdi /\ [][NextUdi]_vars

(***************************************************************************)
(* get_assets: the asset list is loaded from data/assets.json when the     *)
(* global ASSETS is empty.                                                 *)
(***************************************************************************)
MaxGets == 3

AssetNames == {"solar", "wind"}

\* models.resolutions
resolutions == {"15T", "1h", "1d", "1w"}

\* the lists data/assets.json may hold
AssetLists == {<<>>} \cup {<<n>> : n \in AssetNames} \cup {l \in AssetNames \X AssetNames : l[1] # l[2]}

\* os.path.exists for the pickle of every resolution
has_data(name, pickles) == \A res \in resolutions : <<name, res>> \in pickles

get_assets(assets, files) ==
    IF Len(assets) = 0
        THEN LET Listed(name) == has_data(name, files.pickles)
             IN  [ASSETS |-> SelectSeq(files.assets_json, Listed), read |-> 1]
        ELSE [ASSETS |-> assets, read |-> 0]

InitAssets ==
    /\ WriteIdle
    /\ ReadIdle
    /\ AggIdle
    /\ DsIdle
    /\ UdiIdle
    /\ SessionIdle
    /\ ASSETS = <<>>
    /\ disk \in [assets_json : AssetLists, pickles : SUBSET (AssetNames \X resolutions)]
    /\ reads = 0
    /\ assets_got = <<>>

GetAssets ==
    /\ Len(assets_got) < MaxGets
    /\ LET r == get_assets(ASSETS, disk)
       IN  /\ ASSETS' = r.ASSETS
           /\ reads' = reads + r.read
           /\ assets_got' = Append(assets_got, r.ASSETS)
    /\ UNCHANGED <<disk, store, writeVars, wr, readVars, aggVars, dsVars, udiVars, sessionVars>>

NextAssets == GetAssets

SpecAssets == InitAssets /\ [][NextAssets]_vars

(***************************************************************************)
(* set_time_range_for_session: the period, the resolution and the forecast *)
(* horizon of the session. A datetime is a year and a day of the calendar  *)
(* of a leap year (29 February is day 59), with or without a time zone;    *)
(* durations are counted in days.                                          *)
(***************************************************************************)
SessionYear == 2015

February29 == 59

December31 == 365

\* timedelta(hours=48), timedelta(days=14) and timedelta(weeks=16), in days
Hours48 == 2

Days14 == 14

Weeks16 == 112

IsLeapYear(y) == y % 4 = 0 /\ (y % 100 # 0 \/ y % 400 = 0)

\* the days since 1 January of the year of t
DayOfYear(t) == IF IsLeapYear(t.year) \/ t.day < February29 THEN t.day ELSE t.day - 1

\* iso8601.parse_date: a datetime with a time zone, or a ParseError (None)
parse_date(v) ==
    IF v.parses
        THEN Some([year |-> v.year, day |-> v.day, aware |-> TRUE])
        ELSE None

\* t - timedelta(days=1)
DayBefore(t) ==
    IF t.day = 0
        THEN [t EXCEPT !.year = t.year - 1, !.day = December31]
        ELSE IF t.day = February29 + 1 /\ ~IsLeapYear(t.year)
            THEN [t EXCEPT !.day = February29 - 1]
            ELSE [t EXCEPT !.day = t.day - 1]

get_default_start_time(clock) == DayBefore(clock)

get_default_end_time(clock) == clock

\* t.replace(year=2015): a ValueError (None) on 29 February
replace_2015(t) ==
    IF t.day = February29 /\ ~IsLeapYear(SessionYear)
        THEN None
        ELSE Some([t EXCEPT !.year = SessionYear])

\* end - start, for two datetimes of one year
PeriodLength(start, end) == DayOfYear(end) - DayOfYear(start)

\* a variant that switches to the coarser resolution at the threshold
decide_resolution_at_threshold(start, end) ==
    LET period_length == PeriodLength(start, end)
    IN  IF period_length >= Weeks16
            THEN "1w"
            ELSE IF period_length >= Days14
                THEN "1d"
                ELSE IF period_length >= Hours48
                    THEN "1h"
                    ELSE "15T"

decide_resolution(start, end) ==
    LET period_length == PeriodLength(start, end)
    IN  IF period_length > Weeks16
            THEN "1w"
            ELSE IF period_length > Days14
                THEN "1d"
                ELSE IF period_length > Hours48
                    THEN "1h"
                    ELSE "15T"

forecast_horizons_for(res) ==
    IF res \in {"15T", "1h"}
        THEN <<"6h", "48h">>
        ELSE IF res = "1d"
            THEN <<"48h">>
            ELSE IF res = "1w"
                THEN <<"1w">>
                ELSE <<>>

\* a variant that only gives a session without a horizon the first allowed one
allowed_forecast_horizon_if_missing(current, allowed_horizons) ==
    IF current = None /\ Len(allowed_horizons) > 0
        THEN Some(allowed_horizons[1])
        ELSE current

\* lines 228-229
allowed_forecast_horizon(current, allowed_horizons) ==
    IF ~(\E h \in current : h \in Range(allowed_horizons)) /\ Len(allowed_horizons) > 0
        THEN Some(allowed_horizons[1])
        ELSE current

NoSession == [start_time |-> None, end_time |-> None, resolution |-> None, forecast_horizon |-> None]

\* the session after the call and how the call ended; the session keeps what
\* was stored before an exception
set_time_range_for_session(sess, req, clock) ==
    LET start_parsed == IF req.start_time = None THEN None ELSE parse_date(The(req.start_time))
        s1 == IF req.start_time # None
                  THEN [sess EXCEPT !.start_time = start_parsed]
                  ELSE IF sess.start_time = None
                      THEN [sess EXCEPT !.start_time = Some(get_default_start_time(clock))]
                      ELSE sess
        end_parsed == IF req.end_time = None THEN None ELSE parse_date(The(req.end_time))
        s2 == IF req.end_time # None
                  THEN [s1 EXCEPT !.end_time = end_parsed]
                  ELSE IF s1.end_time = None
                      THEN [s1 EXCEPT !.end_time = Some(get_default_end_time(clock))]
                      ELSE s1
    IN  IF req.start_time # None /\ start_parsed = None
            THEN [session |-> sess, outcome |-> "ParseError"]
        ELSE IF req.end_time # None /\ end_parsed = None
            THEN [session |-> s1, outcome |-> "ParseError"]
        ELSE IF replace_2015(The(s2.start_time)) = None
            THEN [session |-> s2, outcome |-> "ValueError"]
        ELSE IF replace_2015(The(s2.end_time)) = None
            THEN [session |-> [s2 EXCEPT !.start_time = replace_2015(The(s2.start_time))], outcome |-> "ValueError"]
        ELSE LET start == The(replace_2015(The(s2.start_time)))
                 end == The(replace_2015(The(s2.end_time)))
                 s4 == [s2 EXCEPT !.start_time = Some(start), !.end_time = Some(end)]
                 s5 == [s4 EXCEPT !.resolution = Some(decide_resolution(start, end))]
                 s6 == IF req.forecast_horizon # None
                           THEN [s5 EXCEPT !.forecast_horizon = req.forecast_horizon]
                           ELSE s5
                 allowed_horizons == forecast_horizons_for(The(s5.resolution))
             IN  IF start.aware # end.aware
                     THEN [session |-> s4, outcome |-> "TypeError"]
                 ELSE IF DayOfYear(start) >= DayOfYear(end)
                     THEN [session |-> s4, outcome |-> "BadRequest"]
                     ELSE [session |-> [s6 EXCEPT !.forecast_horizon = allowed_forecast_horizon(s6.forecast_horizon, allowed_horizons)],
                           outcome |-> "returned"]

\* the values a request may give for start_time and end_time: days of 2015,
\* 29 February 2016 and a text that is no datetime. From 1 January the ends
\* are 2, 3, 14, 15, 112 and 113 days away.
RequestTime(y, dd) == [year |-> y, day |-> dd, parses |-> TRUE]

NoDatetime == [year |-> 0, day |-> 0, parses |-> FALSE]

RequestStarts ==
    {RequestTime(SessionYear, dd) : dd \in {0, 3}}
        \cup {RequestTime(SessionYear + 1, February29), NoDatetime}

RequestEnds ==
    {RequestTime(SessionYear, dd) : dd \in {2, 3, 14, 15, 113, 114}}
        \cup {RequestTime(SessionYear + 1, February29), NoDatetime}

RequestHorizons == {"6h", "48h", "1w", "12h"}

RequestValues ==
    [start_time : {None} \cup {Some(t) : t \in RequestStarts},
     end_time : {None} \cup {Some(t) : t \in RequestEnds},
     forecast_horizon : {None} \cup {Some(h) : h \in RequestHorizons}]

\* the most recent quarter at the time of the calls: an ordinary day,
\* 1 January, and 1 March of a leap year
Clocks ==
    {[year |-> SessionYear + 3, day |-> 3, aware |-> FALSE],
     [year |-> SessionYear + 3, day |-> 0, aware |-> FALSE],
     [year |-> SessionYear + 1, day |-> February29 + 1, aware |-> FALSE]}

InitSession ==
    /\ WriteIdle
    /\ ReadIdle
    /\ AggIdle
    /\ DsIdle
    /\ UdiIdle
    /\ CacheIdle
    /\ session = NoSession
    /\ request = <<>>
    /\ now \in {Some(c) : c \in Clocks}
    /\ outcome = "none"

SetTimeRangeForSession(values) ==
    /\ LET r == set_time_range_for_session(session, values, The(now))
       IN  /\ session' = r.session
           /\ outcome' = r.outcome
    /\ request' = [forecast_horizon |-> values.forecast_horizon]
    /\ UNCHANGED <<now, store, writeVars, wr, readVars, aggVars, dsVars, udiVars, cacheVars>>

NextSession == \E values \in RequestValues : SetTimeRangeForSession(values)

SpecSession == InitSession /\ [][NextSession]_vars

(***************************************************************************)
(* Claims about the write path.                                            *)
(***************************************************************************)

\* C1: reconcile is idempotent: once a batch went through
\* drop_unchanged_beliefs and what was kept has been inserted, running
\* drop_unchanged_beliefs on the same batch against the updated table
\* returns nothing.
C1_ReconcileIdempotent ==
    (wpc = "done" /\ status = "ok")
        => drop_unchanged_beliefs(batch, idx, store) = {}

(***************************************************************************)
(* The candidate beliefs that drop_unchanged_beliefs hands to the          *)
(* comparison with the table: per part of the batch, after dropping the    *)
(* duplicates, the rows of one belief time, source and event.              *)
(***************************************************************************)
CandidateParts ==
    IF ex_ante(batch) # {} /\ ex_post(batch) # {}
        THEN {ex_ante(batch), ex_post(batch)}
        ELSE {batch}

CandidateBeliefs ==
    UNION {{{q \in drop_duplicates(part, idx) :
                 /\ q.event_start = r.event_start
                 /\ q.belief_time = r.belief_time
                 /\ q.source = r.source} : r \in drop_duplicates(part, idx)} :
           part \in CandidateParts}

\* the most recent belief about an event by a source in `table`, formed at
\* or before the belief time of the candidate rows
MostRecentStored(table, cand) ==
    LET c == CHOOSE r \in cand : TRUE
        earlier == {s \in table : /\ s.event_start = c.event_start
                                  /\ s.source = c.source
                                  /\ s.belief_time <= c.belief_time}
    IN  {s \in earlier : \A q \in earlier : q.belief_time <= s.belief_time}

OfSameKind(table, cand) ==
    IF belief_horizon(CHOOSE r \in cand : TRUE) > 0
        THEN ex_ante(table)
        ELSE ex_post(table)

EqualsStored(cand, stored) ==
    \A r \in cand : \E s \in stored : SameCompareFields(r, s)

\* C2, as claimed: a candidate belief (the rows of one event, source and
\* belief time) is dropped as a whole when each of its rows equals the most
\* recent stored belief at or before its belief time, and is returned as a
\* whole otherwise.
C2_WholeBeliefs_AnyKind ==
    wpc = "done" =>
        \A cand \in CandidateBeliefs :
            IF EqualsStored(cand, MostRecentStored(seen, cand))
                THEN cand \cap result = {}
                ELSE cand \subseteq result

\* C2, amended: the stored belief that counts is the most recent one of the
\* same kind, ex-ante (horizon > 0) or ex-post (horizon <= 0), as the
\* candidate; the candidate is dropped as a whole when each of its rows
\* equals it, and returned as a whole, never in part, otherwise.
C2_WholeBeliefs ==
    wpc = "done" =>
        \A cand \in CandidateBeliefs :
            IF EqualsStored(cand, MostRecentStored(OfSameKind(seen, cand), cand))
                THEN cand \cap result = {}
                ELSE cand \subseteq result

\* a probabilistic belief of two rows, one equal to what is stored and one
\* not, was returned with both rows
C2_Witness ==
    /\ wpc = "done"
    /\ \E cand \in CandidateBeliefs :
          /\ Cardinality(cand) = 2
          /\ cand \subseteq result
          /\ \E r \in cand :
                \E s \in MostRecentStored(OfSameKind(seen, cand), cand) :
                    SameCompareFields(r, s)

\* C3: ex-post knowledge is not dropped because of ex-ante knowledge. An
\* ex-post candidate is dropped only when an ex-post belief with the same
\* event, source, probability and value is in the batch or in the table; the
\* ex-post rows returned are those of the ex-post part of the batch compared
\* to the ex-post beliefs of the table, the ex-ante rows those of the ex-ante
\* part compared to the ex-ante beliefs.
C3_ExPostKept ==
    wpc = "done" =>
        /\ \A r \in ex_post(batch) \ result :
              \/ \E q \in ex_post(batch) : q # r /\ SameCompareFields(q, r)
              \/ \E s \in ex_post(seen) : SameCompareFields(s, r)
        /\ result \cap ex_post(batch)
               = drop_unchanged_beliefs(ex_post(batch), idx, ex_post(seen))
        /\ result \cap ex_ante(batch)
               = drop_unchanged_beliefs(ex_ante(batch), idx, ex_ante(seen))

\* an ex-post belief was returned although the batch holds an ex-ante belief
\* with the same event, source, probability and value
C3_Witness ==
    /\ wpc = "done"
    /\ \E r \in result \cap ex_post(batch) :
          \E q \in ex_ante(batch) : SameCompareFields(q, r)

\* C10: concurrent writers are safe through key uniqueness: when both writers
\* decided to write the same belief rows, both saves complete without error
\* (the second being a no-op), and the table never holds two rows with one key.
C10_ConcurrentSaveNoError ==
    /\ KeyUnique(store)
    /\ (/\ \A w \in Writers : wr[w].pc \in {"saved", "IntegrityError"}
        /\ \A w, v \in Writers : wr[w].kept = wr[v].kept
        /\ \E w \in Writers : wr[w].kept # {})
           => \A w \in Writers : wr[w].pc = "saved"

(***************************************************************************)
(* Claims about the read path.                                             *)
(***************************************************************************)

\* C4: the window filter is half-open on event_start. Of the rows of a
\* sensor's resampled frame, the returned frame holds exactly those with
\* start <= event_start < end, for the bounds of query_window that are given,
\* in their order; an event that starts at the start of the window is
\* returned, an event that starts at its end is not.
C4_WindowHalfOpen ==
    \A name \in DOMAIN bdf_dict :
        LET f == bdf_dict[name]
            g == resampled[name]
            inside == {k \in DOMAIN g :
                          /\ \A start \in query_window[1] : start <= g[k].event_start
                          /\ \A end \in query_window[2] : g[k].event_start < end}
        IN  /\ Len(f) = Cardinality(inside)
            /\ \A k \in DOMAIN f : f[k] = g[Nth(inside, k)]

\* a sensor was resampled to another resolution than its own, an event of
\* the resampled frame starts at the start of the window and is returned,
\* another starts at the end of the window and is not
C4_Witness ==
    /\ rpc = "returned"
    /\ \E name \in DOMAIN bdf_dict :
          /\ The(resolution) # Sensors[name]
          /\ query_window[1] # None
          /\ query_window[2] # None
          /\ \E a, b \in DOMAIN resampled[name] :
                /\ resampled[name][a].event_start = The(query_window[1])
                /\ resampled[name][b].event_start = The(query_window[2])
                /\ resampled[name][a] \in Range(bdf_dict[name])
                /\ resampled[name][b] \notin Range(bdf_dict[name])

\* the raw rows of a sensor, with the names the frame gives their columns
RawRows(name) ==
    {[event_start |-> r.datetime, belief_horizon |-> r.horizon,
      source |-> r.source, event_value |-> r.value] : r \in RowsOfSensor(raw, name)}

\* C5: most-recent selection keeps, for every sensor, exactly one row per
\* event_start of its raw rows; the row kept is one of the raw rows of that
\* event_start and none of them has a smaller belief_horizon; the rows are in
\* the order of event_start, in the selection and in the frame returned.
C5_MostRecentSelection ==
    \A name \in DOMAIN selected :
        LET f == selected[name]
            out == bdf_dict[name]
        IN  /\ {f[k].event_start : k \in DOMAIN f} = {r.event_start : r \in RawRows(name)}
            /\ \A k \in DOMAIN f :
                  /\ f[k] \in RawRows(name)
                  /\ \A r \in RawRows(name) :
                        r.event_start = f[k].event_start => f[k].belief_horizon <= r.belief_horizon
            /\ \A a, b \in DOMAIN f : a < b => f[a].event_start < f[b].event_start
            /\ \A a, b \in DOMAIN out : a < b => out[a].event_start < out[b].event_start

\* a source believed 100 at horizon 2 and 110 at horizon 1 about an event
\* that lies after another event of the sensor: 110 is returned
C5_Witness ==
    /\ rpc = "returned"
    /\ \E name \in DOMAIN selected :
          \E r, q \in RawRows(name) :
              /\ r.event_start = q.event_start
              /\ r.source = q.source
              /\ r.belief_horizon = 2 /\ r.event_value = 100
              /\ q.belief_horizon = 1 /\ q.event_value = 110
              /\ q \in Range(selected[name])
              /\ r \notin Range(selected[name])
              /\ q \in Range(bdf_dict[name])

\* C6: most-recent selection is deterministic under ties: a query that is
\* run again on the same raw rows returns what the first run returned, also
\* when several sources have a row of the smallest horizon for an event.
C6_DeterministicTieBreak ==
    (run = 2 /\ rpc = "returned") => bdf_dict = first

\* C9: the failure of one sensor is isolated: when a requested sensor name is
\* unknown, the call still yields the frame of every other requested sensor.
C9_FailureIsolated ==
    (rpc = "raised" /\ error = "Exception") =>
        \A k \in DOMAIN names :
            find_sensor_by_name(names[k]).raised = "none" => names[k] \in DOMAIN bdf_dict

(***************************************************************************)
(* Claims about the aggregation.                                           *)
(***************************************************************************)

\* the event starts of the input series, and the series that have one
AllEventStarts == UNION {{r.event_start : r \in series[k]} : k \in DOMAIN series}

Having(t) == {k \in DOMAIN series : \E r \in series[k] : r.event_start = t}

RECURSIVE SumOver(_, _)
SumOver(K, t) ==
    IF K = {}
        THEN 0
        ELSE LET k == CHOOSE n \in K : TRUE
             IN  ValueAt(series[k], t) + SumOver(K \ {k}, t)

\* C7: the combined series holds, for every event_start that at least one
\* input series has, the sum of the values of the series that have it,
\* whichever position those series have in the mapping.
C7_SumMissingAsZero ==
    apc = "done" =>
        \A t \in AllEventStarts :
            \E r \in agg : r.event_start = t /\ r.event_value = SumOver(Having(t), t)

MultiSource ==
    \/ \E k \in DOMAIN series : Cardinality(LineageSources(series[k])) > 1
    \/ Cardinality(UNION {LineageSources(series[k]) : k \in DOMAIN series}) > 1

C11_AppendOnly ==
    [][\A r \in store : r \in store']_vars

(***************************************************************************)
(* Claims about get_data_source.                                           *)
(***************************************************************************)

\* C12: get_data_source returns the existing data source of a label when
\* there is one and creates one only when there is none: no call raises, a
\* call creates a source exactly when none had the label, every requested
\* label has exactly one data source, and calls with the same label return
\* the same source.
C12_LookupOrCreate ==
    /\ \A k \in DOMAIN ds_log :
          /\ ds_log[k].raised = "none"
          /\ ds_log[k].created <=> ~ds_log[k].existed
          /\ WithLabel(data_sources, ds_log[k].label) = ds_log[k].source
          /\ Cardinality(ds_log[k].source) = 1
    /\ \A a, b \in DOMAIN ds_log :
          ds_log[a].label = ds_log[b].label => ds_log[a].source = ds_log[b].source

\* a label without a data source is requested twice: the first call creates
\* the source, the second returns it
C12_Witness ==
    \E a, b \in DOMAIN ds_log :
        /\ a < b
        /\ ds_log[a].label = ds_log[b].label
        /\ ds_log[a].created
        /\ ~ds_log[b].created
        /\ ds_log[b].source = ds_log[a].source
        /\ ds_log[b].source \subseteq data_sources

(***************************************************************************)
(* Claims about the demo window.                                           *)
(***************************************************************************)

\* a bound is the leap day and the demo year has none
OnLeapDay(bound, demo_year) ==
    /\ bound # None
    /\ demo_year # None
    /\ Slot(The(bound)) = LeapSlot
    /\ ~IsLeap(The(demo_year))

\* the day of the demo year that a start and an end are expected to move to:
\* the leap day moves a day back for a start, a day on for an end
ExpectedStart == At(The(config.demo_year), IF OnLeapDay(window[1], config.demo_year) THEN LeapSlot - 1 ELSE Slot(The(window[1])))

ExpectedEnd == At(The(config.demo_year), IF OnLeapDay(window[2], config.demo_year) THEN LeapSlot + 1 ELSE Slot(The(window[2])))

BothGiven == window[1] # None /\ window[2] # None

\* C13: the translation of a window with a start or an end on the leap day
\* to a demo year without one does not raise: it returns the window in the
\* demo year, with a leap-day start moved to the day before (28 February)
\* and a leap-day end to the day after (1 March), in ascending order.
C13_LeapDayExpanded ==
    (/\ rpc # "call"
     /\ BothGiven
     /\ OnLeapDay(window[1], config.demo_year) \/ OnLeapDay(window[2], config.demo_year)) =>
        /\ rpc = "converted"
        /\ error = "none"
        /\ query_window \in {<<Some(ExpectedStart), Some(ExpectedEnd)>>,
                             <<Some(ExpectedEnd), Some(ExpectedStart)>>}
        /\ The(query_window[1]) <= The(query_window[2])

\* a window from the leap day to the leap day became the window from the day
\* before to the day after, in the demo year
C13_Witness ==
    /\ rpc = "converted"
    /\ OnLeapDay(window[1], config.demo_year)
    /\ OnLeapDay(window[2], config.demo_year)
    /\ query_window = <<Some(At(DemoYear, LeapSlot - 1)), Some(At(DemoYear, LeapSlot + 1))>>

\* C15: the translation returns an ordered window: with a demo year it
\* returns the two shifted bounds with start <= end, swapped when the shift
\* inverted their order; without a demo year it returns the window it got.
C15_OrderedWindow ==
    /\ (rpc # "call" /\ config.demo_year = None) =>
          (rpc = "converted" /\ query_window = window)
    /\ (rpc # "call" /\ config.demo_year # None /\ BothGiven) =>
          /\ rpc = "converted"
          /\ The(query_window[1]) <= The(query_window[2])
          /\ query_window = IF ExpectedStart > ExpectedEnd
                                THEN <<Some(ExpectedEnd), Some(ExpectedStart)>>
                                ELSE <<Some(ExpectedStart), Some(ExpectedEnd)>>

\* a window that starts in one year and ends early in the next: the shift
\* to the demo year inverted the bounds and they were swapped
C15_Witness ==
    /\ rpc = "converted"
    /\ config.demo_year # None
    /\ BothGiven
    /\ The(window[1]) < The(window[2])
    /\ ExpectedStart > ExpectedEnd
    /\ query_window = <<Some(ExpectedEnd), Some(ExpectedStart)>>

(***************************************************************************)
(* Claims about the read path in demo mode and about absent bounds.        *)
(***************************************************************************)

\* the window as the caller gave it holds an event start
InCallerWindow(t) ==
    /\ \A start \in window[1] : start <= t
    /\ \A end \in window[2] : t < end

\* C14: the demo translation is symmetric: in demo mode with a demo year the
\* rows returned for a sensor are the rows of the demo year, relabelled to
\* the current year, that lie inside the window the caller gave, and all of
\* those; the rows the query returned are not changed.
C14_DemoSymmetric ==
    (rpc = "returned" /\ config.mode = "demo" /\ config.demo_year # None) =>
        \A name \in DOMAIN bdf_dict :
            /\ \A k \in DOMAIN bdf_dict[name] : InCallerWindow(bdf_dict[name][k].event_start)
            /\ \A k \in DOMAIN resampled[name] :
                  InCallerWindow(resampled[name][k].event_start) =>
                      resampled[name][k] \in Range(bdf_dict[name])

\* C16: a start or an end that is None imposes no constraint: the fetch
\* does not fail on it, in demo mode or not, and every row is kept on the
\* side without a bound.
C16_AbsentBounds ==
    (window[1] = None \/ window[2] = None) =>
        /\ error # "AttributeError"
        /\ rpc = "returned" =>
              \A name \in DOMAIN bdf_dict :
                  \A k \in DOMAIN resampled[name] :
                      InCallerWindow(resampled[name][k].event_start) =>
                          resampled[name][k] \in Range(bdf_dict[name])

(***************************************************************************)
(* Claims about resampling.                                                *)
(***************************************************************************)

\* the native rows that the bucket of the target resolution at b covers
Covered(name, b) ==
    {selected[name][k] : k \in {n \in DOMAIN selected[name] :
        b <= selected[name][n].event_start /\ selected[name][n].event_start < b + The(resolution)}}

\* C17: resampling to a coarser resolution takes the arithmetic mean: every
\* bucket of the target resolution that covers native rows has one row, and
\* its value is the mean of the values of those rows.
C17_DownsampleMean ==
    \A name \in DOMAIN resampled :
        (The(resolution) > Sensors[name] /\ The(resolution) % Sensors[name] = 0) =>
            LET out == resampled[name]
            IN  /\ \A k \in DOMAIN out :
                      /\ out[k].event_start % The(resolution) = 0
                      /\ Covered(name, out[k].event_start) # {}
                      /\ out[k].event_value * Cardinality(Covered(name, out[k].event_start))
                             = SumValues(Covered(name, out[k].event_start))
                /\ \A n \in DOMAIN selected[name] :
                      \E k \in DOMAIN out :
                          out[k].event_start = Bucket(selected[name][n].event_start, The(resolution))
                /\ \A a, b \in DOMAIN out : a < b => out[a].event_start < out[b].event_start

\* the four values 10, 20, 30, 40 of consecutive events became one event of
\* four times the resolution with the value 25
C17_Witness ==
    /\ rpc = "resampled"
    /\ names = <<"A">>
    /\ resolution = Some(4)
    /\ Len(selected["A"]) = 4
    /\ \A k \in 1..4 : selected["A"][k].event_value = 10 * k * ValueUnit
    /\ Len(resampled["A"]) = 1
    /\ resampled["A"][1].event_start = 0
    /\ resampled["A"][1].event_value = 25 * ValueUnit

\* C18: a target resolution that neither divides nor multiplies the
\* sensor's resolution is refused: the resampling fails with
\* UnsupportedResolution and no series comes back.
C18_UnsupportedResolution ==
    (/\ rpc # "selected"
     /\ The(resolution) % Sensors[names[1]] # 0
     /\ Sensors[names[1]] % The(resolution) # 0) =>
        /\ error = "UnsupportedResolution"
        /\ resampled = <<>>

(***************************************************************************)
(* Claims about collect_time_series_data and about empty data.             *)
(***************************************************************************)

\* C19: for a single sensor, collect_time_series_data returns what its
\* query returned for the sensor: with sum_multiple the series itself,
\* unchanged and without a warning, without sum_multiple the mapping that
\* holds it under the sensor's name.
C19_SingleSensorUnchanged ==
    (Len(names) = 1 /\ apc \in {"summed", "mapped"}) =>
        IF apc = "summed"
            THEN agg = Range(bdf_dict[names[1]]) /\ warnings = {}
            ELSE DOMAIN agg = {names[1]} /\ agg[names[1]] = bdf_dict[names[1]]

\* the series of a single sensor holds rows of two sources and came back
\* unchanged from the aggregation
C19_Witness ==
    /\ Len(names) = 1
    /\ apc = "summed"
    /\ Cardinality(LineageSources(agg)) = 2
    /\ agg = Range(bdf_dict[names[1]])
    /\ agg = Range(resampled[names[1]])

\* C20: the absence of beliefs is not an error: the query does not raise and
\* a known sensor without rows gets an empty frame, an empty batch comes back
\* empty from drop_unchanged_beliefs, and the aggregation of series that are
\* all empty is an empty series.
C20_EmptyIsNoError ==
    /\ rpc # "raised"
    /\ error = "none"
    /\ \A name \in DOMAIN bdf_dict :
          RowsOfSensor(raw, name) = {} => bdf_dict[name] = <<>>
    /\ (rpc = "returned" /\ find_sensor_by_name(names[1]).raised = "none") =>
          \A k \in DOMAIN names : names[k] \in DOMAIN bdf_dict
    /\ (wpc = "done" /\ batch = {}) => (result = {} /\ status = "ok" /\ store = {})
    /\ (apc = "summed" /\ \A k \in DOMAIN series : series[k] = {}) => agg = {}

\* two known sensors without rows were queried and summed, and an empty
\* batch went through the write path
C20_Witness ==
    /\ raw = {}
    /\ Len(names) = 2
    /\ rpc = "returned"
    /\ bdf_dict = [name \in {"A", "B"} |-> <<>>]
    /\ apc = "summed"
    /\ series = <<{}, {}>>
    /\ agg = {}
    /\ wpc = "done"
    /\ batch = {}
    /\ result = {}

(***************************************************************************)
(* Claims about the duplicates inside a batch.                             *)
(***************************************************************************)

\* the rows of `part` that agree with r on event_start, source, probability
\* and value
SameAs(part, r) == {q \in part : SameCompareFields(q, r)}

EarliestOf(rows) == {r \in rows : \A q \in rows : r.belief_time <= q.belief_time}

\* C21: within a batch, among the candidate rows with the same event_start,
\* source, cumulative_probability and event_value exactly one is kept, the
\* one with the earliest belief time (largest horizon), whether the batch is
\* indexed by belief_time or by belief_horizon. Stated for a table without
\* beliefs, so that nothing is dropped for being stored already.
C21_EarliestInBatchKept ==
    (wpc = "done" /\ seen = {}) =>
        \A part \in CandidateParts :
            \A r \in part :
                result \cap SameAs(part, r) = EarliestOf(SameAs(part, r))

(***************************************************************************)
(* Claims about UDI events and scheduling jobs.                            *)
(***************************************************************************)

SchedulerSources(table) == WithLabel(table, SchedulerLabel)

Finished == {j \in DOMAIN jobs : jobs[j].status = "finished"}

C24_LoadedOnce ==
    /\ reads <= 1
    /\ \A k \in DOMAIN assets_got : assets_got[k] = assets_got[1]

(***************************************************************************)
(* Claims about the comparison with the table.                             *)
(***************************************************************************)

\* the groups handed to _drop_unchanged_beliefs_compared_to_db: per part of
\* the batch, after the duplicates were dropped, the rows of one belief time
\* and source
CandidateGroups ==
    UNION {{Group(drop_duplicates(part, idx), k) : k \in GroupKeys(drop_duplicates(part, idx))} :
           part \in CandidateParts}

\* C25: an ex-ante candidate group (horizon > 0) is compared only with
\* stored ex-ante beliefs (horizon > 0) and an ex-post group only with stored
\* ex-post beliefs (horizon <= 0); a stored belief of horizon 0 is never the
\* reference an ex-ante candidate is dropped for: an ex-ante candidate that
\* is not returned equals another ex-ante belief of the batch or a stored
\* belief of horizon > 0.
C25_ComparedWithSameKind ==
    wpc = "done" =>
        /\ \A g \in CandidateGroups :
              /\ (\A r \in g : belief_horizon(r) > 0) \/ (\A r \in g : belief_horizon(r) <= 0)
              /\ \A s \in previous_most_recent_beliefs_in_db(g, seen) :
                    belief_horizon(s) > 0 <=> FirstHorizon(g) > 0
        /\ \A r \in ex_ante(batch) \ result :
              \/ \E q \in ex_ante(batch) : q # r /\ SameCompareFields(q, r)
              \/ \E s \in seen : belief_horizon(s) > 0 /\ SameCompareFields(s, r)

\* an ex-ante candidate was returned although the table holds a belief of
\* horizon 0 with the same event, source, probability and value
C25_Witness ==
    /\ wpc = "done"
    /\ \E r \in result :
          /\ belief_horizon(r) > 0
          /\ \E s \in seen : belief_horizon(s) = 0 /\ SameCompareFields(s, r)


\* the beliefs about the event of r by its source and with its probability,
\* in the batch or in the table, that were formed before r
EarlierBeliefs(r) ==
    {q \in batch \cup seen :
        /\ q.event_start = r.event_start
        /\ q.source = r.source
        /\ q.cumulative_probability = r.cumulative_probability
        /\ q.belief_time < r.belief_time}

MostRecentOf(rows) == {q \in rows : \A p \in rows : p.belief_time <= q.belief_time}

\* C26: drop_unchanged_beliefs never drops a genuine change: a candidate
\* whose event_value differs from the most recent earlier belief of the same
\* event_start, source and cumulative_probability, be that belief in the
\* batch or in the table, is returned; so is a belief that reverts to an
\* older value after another value (10, then 20, then 10 again).
C26_GenuineChangeKept ==
    wpc = "done" =>
        \A r \in batch :
            (/\ EarlierBeliefs(r) # {}
             /\ \A q \in MostRecentOf(EarlierBeliefs(r)) : q.event_value # r.event_value)
                => r \in result

(***************************************************************************)
(* Claims about the resolution of a query for several sensors.             *)
(***************************************************************************)

\* C27: when no resolution is requested and sensors with different event
\* resolutions are queried in one call, each sensor's series is returned at
\* the sensor's own resolution, whatever the order of the sensors: the
\* frame of each sensor is its selected frame as resampled to the sensor's
\* event resolution.
C27_NativeResolutionPerSensor ==
    (rpc = "returned" /\ res_arg = None) =>
        \A name \in DOMAIN bdf_dict :
            LET df == IF config.mode = "demo" THEN Relabel(selected[name]) ELSE selected[name]
                native == find_sensor_by_name(name).event_resolution
            IN  /\ resampled[name] = resample_events(df, native, native)
                /\ bdf_dict[name] = Slice(resample_events(df, native, native), query_window)

(***************************************************************************)
(* Claims about the length of the demo window.                             *)
(***************************************************************************)

\* the days from the first day of year 0 to t: the leap day counts only in
\* the years that have one
DaysBefore(t) == Cardinality({u \in 0..(t - 1) : ValidTime(u)})

Duration(qw) == DaysBefore(The(qw[2])) - DaysBefore(The(qw[1]))

Translated == rpc = "converted" /\ config.demo_year # None /\ BothGiven

LeapBounds == {k \in {1, 2} : OnLeapDay(window[k], config.demo_year)}

\* C28, as claimed: the translation preserves the length of every window
\* with start <= end, but for the expansion by one day per bound that falls
\* on a leap day, also when the window spans a year boundary.
C28_LengthPreserved ==
    (Translated /\ The(window[1]) <= The(window[2])) =>
        /\ Duration(query_window) >= Duration(window)
        /\ Duration(query_window) <= Duration(window) + Cardinality(LeapBounds)

\* the 29 February of year y lies strictly inside the window qw
HoldsLeapDay(qw, y) ==
    /\ IsLeap(y)
    /\ The(qw[1]) < At(y, LeapSlot)
    /\ At(y, LeapSlot) < The(qw[2])

\* C28, amended: for a window with start <= end inside one calendar year
\* the translated window has the length of the window, but for one day when
\* the window holds a 29 February that only one of the two years has: a day
\* more when both bounds are on the leap day (the expansion) or when the
\* demo year's leap day comes to lie inside, a day less when the caller's
\* leap day was inside.
C28_LengthPreservedWithinYear ==
    (/\ rpc # "call"
     /\ config.demo_year # None
     /\ BothGiven
     /\ The(window[1]) <= The(window[2])
     /\ Year(The(window[1])) = Year(The(window[2]))) =>
        /\ rpc = "converted"
        /\ Duration(query_window) =
              Duration(window)
                  + (IF LeapBounds = {1, 2} THEN 1 ELSE 0)
                  + (IF HoldsLeapDay(query_window, The(config.demo_year)) /\ ~IsLeap(Year(The(window[1]))) THEN 1 ELSE 0)
                  - (IF HoldsLeapDay(window, Year(The(window[1]))) /\ ~IsLeap(The(config.demo_year)) THEN 1 ELSE 0)

\* a window of a leap year from the day before the leap day to the day after
\* it was translated to a year without a leap day, where it is a day shorter
C28_Witness ==
    /\ rpc = "converted"
    /\ window = <<Some(At(LeapYear, LeapSlot - 1)), Some(At(LeapYear, LeapSlot + 1))>>
    /\ query_window = <<Some(At(DemoYear, LeapSlot - 1)), Some(At(DemoYear, LeapSlot + 1))>>
    /\ Duration(window) = 2
    /\ Duration(query_window) = 1

(***************************************************************************)
(* Claims about the session.                                               *)
(***************************************************************************)

\* the days from the session's start_time to its end_time
SessionPeriod == DayOfYear(The(session.end_time)) - DayOfYear(The(session.start_time))

\* C29: whenever set_time_range_for_session returns, start_time and end_time
\* of the session are in 2015, start_time is before end_time and the
\* session's resolution is the one decided for the period: 15T up to 48
\* hours, 1h above 48 hours, 1d above 14 days, 1w above 16 weeks. When
\* start_time is not before end_time once the year is replaced, the call
\* raises BadRequest instead.
C29_SessionTimeRange ==
    /\ outcome = "returned" =>
          /\ The(session.start_time).year = SessionYear
          /\ The(session.end_time).year = SessionYear
          /\ SessionPeriod > 0
          /\ session.resolution =
                Some(IF SessionPeriod > Weeks16 THEN "1w"
                     ELSE IF SessionPeriod > Days14 THEN "1d"
                     ELSE IF SessionPeriod > Hours48 THEN "1h"
                     ELSE "15T")
    /\ outcome = "BadRequest" =>
          /\ The(session.start_time).year = SessionYear
          /\ The(session.end_time).year = SessionYear
          /\ SessionPeriod <= 0

\* a call returned with a period of exactly 14 days, at the resolution 1h
C29_Witness ==
    /\ outcome = "returned"
    /\ SessionPeriod = Days14
    /\ session.resolution = Some("1h")

\* C30: after a call of set_time_range_for_session that returned, whatever
\* the calls before it and the values of the request, the session's
\* forecast_horizon is one of forecast_horizons_for(resolution); a requested
\* horizon that is allowed for the resolution is taken, one that is not is
\* replaced by the first allowed one.
C30_ForecastHorizonAllowed ==
    outcome = "returned" =>
        LET allowed_horizons == forecast_horizons_for(The(session.resolution))
        IN  /\ session.forecast_horizon # None
            /\ The(session.forecast_horizon) \in Range(allowed_horizons)
            /\ \A h \in request.forecast_horizon :
                  session.forecast_horizon =
                      IF h \in Range(allowed_horizons) THEN Some(h) ELSE Some(allowed_horizons[1])

\* a request asked for the horizon 6h over a period of more than 14 days and
\* the session got the horizon 48h
C30_Witness ==
    /\ outcome = "returned"
    /\ request.forecast_horizon = Some("6h")
    /\ session.resolution = Some("1d")
    /\ session.forecast_horizon = Some("48h")

====
